---- MODULE Spec2Model ----
(***************************************************************************)
(* The HTTP admin API of a mycelium node (src/api.rs): the server handle   *)
(* and its cooperative shutdown, the request handlers for peers, routes    *)
(* and node info, and the serialisation of the API metric.                 *)
(*                                                                         *)
(* The collaborators the handlers call (Endpoint, PeerManager, Router) are *)
(* other modules of the crate; they are modelled from their contracts.     *)
(***************************************************************************)
EXTENDS Integers, Sequences, FiniteSets, TLC

\* ------------------------------------------------------------------ bounds

\* Distinct peer endpoints the clients name.
MaxEndpoint == 2

\* Requests the server handles concurrently (one runtime task each).
NumTasks == 2

\* Largest value of a u16 (Metric::Value, Route::seqno).
U16Max == 65535

Endpoint == 1..MaxEndpoint
Tasks == 1..NumTasks

\* ---------------------------------------------------------------- endpoint

\* The diagnostics of the endpoint parser.
ParseErrors == {"missing separator", "invalid address"}

\* Request texts: the canonical string form of an endpoint, another text the
\* parser accepts for the same endpoint, and texts it rejects.
Text ==
    [form : {"canonical", "alternate"}, id : Endpoint, why : {""}]
        \cup [form : {"malformed"}, id : {0}, why : ParseErrors]

\* Endpoint::from_str: the endpoint, or the parse error.
Endpoint_from_str(s) ==
    IF s.form = "malformed"
    THEN [ok |-> FALSE, endpoint |-> 0, err |-> s.why]
    ELSE [ok |-> TRUE, endpoint |-> s.id, err |-> ""]

\* The parse error's Display text (e.to_string()).
to_string(e) == <<"invalid endpoint", e>>

\* ------------------------------------------------------------ peer manager

\* PeerManager::add_peer: Err(PeerExists) when the endpoint is known.
pm_add_peer(ps, e) ==
    IF e \in ps
    THEN [ok |-> FALSE, peers |-> ps]
    ELSE [ok |-> TRUE, peers |-> ps \cup {e}]

\* PeerManager::delete_peer: Err(PeerNotFound) when the endpoint is unknown.
pm_delete_peer(ps, e) ==
    IF e \in ps
    THEN [ok |-> TRUE, peers |-> ps \ {e}]
    ELSE [ok |-> FALSE, peers |-> ps]

\* One PeerStats per known peer.
PeerStats(e) == [endpoint |-> e]

\* The orders in which the elements of a set can be listed.
Listings(S) ==
    {q \in [1..Cardinality(S) -> S] : \A i, j \in DOMAIN q : i # j => q[i] # q[j]}

\* PeerManager::peers: the stats of the known peers, in no guaranteed order.
pm_peers(ps) ==
    {[i \in DOMAIN q |-> PeerStats(q[i])] : q \in Listings(ps)}

\* ---------------------------------------------------------------- statuses

NO_CONTENT == 204
OK == 200
BAD_REQUEST == 400
NOT_FOUND == 404
CONFLICT == 409

PeerExistsMessage == "A peer identified by that endpoint already exists"
PeerNotFoundMessage == "A peer identified by that endpoint does not exist"

\* A response body: plain text (as the pieces of the message) or a JSON array.
TextBody(t) == [text |-> t, json |-> <<>>]
JsonBody(j) == [text |-> <<>>, json |-> j]
NoBody == [text |-> <<>>, json |-> <<>>]

\* ---------------------------------------------------------------- handlers

\* add_peer that answers an existing peer as a success.
add_peer_result_upsert(ps, s) ==
    LET r == Endpoint_from_str(s) IN
    IF ~r.ok
    THEN [status |-> BAD_REQUEST, body |-> TextBody(to_string(r.err)),
          peers |-> ps, calls |-> <<>>]
    ELSE [status |-> NO_CONTENT, body |-> NoBody,
          peers |-> pm_add_peer(ps, r.endpoint).peers, calls |-> <<"add_peer">>]

\* add_peer that calls the peer manager before it looks at the parse result,
\* with the endpoint a failed parse leaves behind.
add_peer_result_eager(ps, s) ==
    LET r == Endpoint_from_str(s)
        a == pm_add_peer(ps, IF r.ok THEN r.endpoint ELSE 1)
    IN
    IF ~r.ok
    THEN [status |-> BAD_REQUEST, body |-> TextBody(to_string(r.err)),
          peers |-> a.peers, calls |-> <<"add_peer">>]
    ELSE IF a.ok
         THEN [status |-> NO_CONTENT, body |-> NoBody,
               peers |-> a.peers, calls |-> <<"add_peer">>]
         ELSE [status |-> CONFLICT, body |-> TextBody(<<PeerExistsMessage>>),
               peers |-> a.peers, calls |-> <<"add_peer">>]

\* add_peer on peer set ps with payload.endpoint = s: the response, the peer
\* set it leaves and the PeerManager calls it made.
add_peer_result(ps, s) ==
    LET r == Endpoint_from_str(s) IN
    IF ~r.ok
    THEN [status |-> BAD_REQUEST, body |-> TextBody(to_string(r.err)),
          peers |-> ps, calls |-> <<>>]
    ELSE LET a == pm_add_peer(ps, r.endpoint) IN
         IF a.ok
         THEN [status |-> NO_CONTENT, body |-> NoBody,
               peers |-> a.peers, calls |-> <<"add_peer">>]
         ELSE [status |-> CONFLICT, body |-> TextBody(<<PeerExistsMessage>>),
               peers |-> a.peers, calls |-> <<"add_peer">>]

\* delete_peer that answers 204 without calling the peer manager.
delete_peer_result_noop(ps, s) ==
    LET r == Endpoint_from_str(s) IN
    IF ~r.ok
    THEN [status |-> BAD_REQUEST, body |-> TextBody(to_string(r.err)),
          peers |-> ps, calls |-> <<>>]
    ELSE [status |-> NO_CONTENT, body |-> NoBody, peers |-> ps, calls |-> <<>>]

\* delete_peer that answers an unknown peer as a success.
delete_peer_result_idempotent(ps, s) ==
    LET r == Endpoint_from_str(s) IN
    IF ~r.ok
    THEN [status |-> BAD_REQUEST, body |-> TextBody(to_string(r.err)),
          peers |-> ps, calls |-> <<>>]
    ELSE [status |-> NO_CONTENT, body |-> NoBody,
          peers |-> pm_delete_peer(ps, r.endpoint).peers, calls |-> <<"delete_peer">>]

\* delete_peer that answers a text it cannot parse with a fixed message.
delete_peer_result_fixed_400(ps, s) ==
    LET r == Endpoint_from_str(s) IN
    IF ~r.ok
    THEN [status |-> BAD_REQUEST, body |-> TextBody(<<"invalid endpoint">>),
          peers |-> ps, calls |-> <<>>]
    ELSE LET d == pm_delete_peer(ps, r.endpoint) IN
         IF d.ok
         THEN [status |-> NO_CONTENT, body |-> NoBody,
               peers |-> d.peers, calls |-> <<"delete_peer">>]
         ELSE [status |-> NOT_FOUND, body |-> TextBody(<<PeerNotFoundMessage>>),
               peers |-> d.peers, calls |-> <<"delete_peer">>]

\* delete_peer on peer set ps with path parameter s.
delete_peer_result(ps, s) ==
    LET r == Endpoint_from_str(s) IN
    IF ~r.ok
    THEN [status |-> BAD_REQUEST, body |-> TextBody(to_string(r.err)),
          peers |-> ps, calls |-> <<>>]
    ELSE LET d == pm_delete_peer(ps, r.endpoint) IN
         IF d.ok
         THEN [status |-> NO_CONTENT, body |-> NoBody,
               peers |-> d.peers, calls |-> <<"delete_peer">>]
         ELSE [status |-> NOT_FOUND, body |-> TextBody(<<PeerNotFoundMessage>>),
               peers |-> d.peers, calls |-> <<"delete_peer">>]

\* get_peers that lists only the peers that happen to be connected.
get_peers_result_partial(ps) ==
    {[status |-> OK, body |-> JsonBody(l), peers |-> ps, calls |-> <<"peers">>] :
        l \in UNION {pm_peers(qs) : qs \in SUBSET ps}}

\* get_peers that loses the last entry of the listing.
get_peers_result_short(ps) ==
    {[status |-> OK, body |-> JsonBody(SubSeq(l, 1, Len(l) - 1)), peers |-> ps,
      calls |-> <<"peers">>] : l \in pm_peers(ps)}

\* get_peers: any listing the peer manager may return, as the body of a 200.
get_peers_result(ps) ==
    {[status |-> OK, body |-> JsonBody(l), peers |-> ps, calls |-> <<"peers">>] :
        l \in pm_peers(ps)}

\* ------------------------------------------------------------------ routes

\* crate::metric::Metric: a u16 whose largest value means "unreachable".
METRIC_INFINITE == 65535
is_infinite(m) == m = METRIC_INFINITE

\* The API's Metric: Value(u16) or Infinite.
Value(v) == [tag |-> "Value", v |-> v]
Infinite == [tag |-> "Infinite", v |-> 0]

\* The internal route records the model's routing tables hold.
RouteRecords ==
    {[subnet |-> 1, neighbour |-> 1, metric |-> 10, seqno |-> 7],
     [subnet |-> 2, neighbour |-> 1, metric |-> METRIC_INFINITE, seqno |-> 0]}

\* A Route view that carries every metric as a number.
Route_metric_as_number(sr) ==
    [subnet |-> <<"subnet", sr.subnet>>,
     nextHop |-> <<"peer", sr.neighbour>>,
     metric |-> Value(sr.metric),
     seqno |-> sr.seqno]

\* The Route view of an internal route record (the closure both route
\* handlers map over the list).
Route(sr) ==
    [subnet |-> <<"subnet", sr.subnet>>,
     nextHop |-> <<"peer", sr.neighbour>>,
     metric |-> IF is_infinite(sr.metric) THEN Infinite ELSE Value(sr.metric),
     seqno |-> sr.seqno]

\* A copy of the list that stops after its first record.
MapRoutes_first(l) == [i \in DOMAIN l \cap {1} |-> Route(l[i])]

MapRoutes(l) == [i \in DOMAIN l |-> Route(l[i])]

\* The routers the node may run with: its subnet and its two route lists.
Routers ==
    LET a == CHOOSE r \in RouteRecords : ~is_infinite(r.metric)
        b == CHOOSE r \in RouteRecords : is_infinite(r.metric)
    IN {[node_tun_subnet |-> 1, selected |-> <<>>, fallback |-> <<>>],
        [node_tun_subnet |-> 1, selected |-> <<a>>, fallback |-> <<b, a>>]}

\* ------------------------------------------------------ metric serialisation

DigitChars == <<"0", "1", "2", "3", "4", "5", "6", "7", "8", "9">>

\* serialize_u16: the decimal digits of v, most significant first.
RECURSIVE serialize_u16(_)
serialize_u16(v) ==
    IF v < 10
    THEN <<DigitChars[v + 1]>>
    ELSE Append(serialize_u16(v \div 10), DigitChars[(v % 10) + 1])

\* serialize_str: the text between double quotes.
serialize_str(chars) == <<"\"">> \o chars \o <<"\"">>

\* Serialize that writes Infinite as the number the routing core uses for it.
Serialize_infinite_as_number(m) ==
    IF m.tag = "Infinite"
    THEN serialize_u16(METRIC_INFINITE)
    ELSE serialize_u16(m.v)

\* impl Serialize for Metric.
Serialize(m) ==
    IF m.tag = "Infinite"
    THEN serialize_str(<<"i", "n", "f", "i", "n", "i", "t", "e">>)
    ELSE serialize_u16(m.v)

\* ------------------------------------------------------------------- state

VARIABLES
    owner,      \* the process that calls Http::spawn: "running" or "panicked"
    handle,     \* the Http handle: "unspawned", "alive", "dropped", "none"
    cancel,     \* the oneshot channel: "none", "open", "closed" (sender dropped)
    shutdown,   \* TRUE once the graceful-shutdown future has completed
    server,     \* "unspawned", "running", "draining", "stopped", "failed"
    logged,     \* TRUE once "Http API server error" was logged
    pc,         \* per task: "idle", the handler it runs, or where it is in it
    local,      \* per task: the value the handler computed under the lock
    lock,       \* the task that holds the Router mutex, 0 when free
    peers,      \* the endpoints the PeerManager knows
    router,     \* the Router behind the mutex
    audit,      \* whether the exchange log is kept (fixed for a behaviour)
    last,       \* log: the last completed peer exchange
    mark,       \* log: per endpoint, what the last calls on it established
    at_drop,    \* log: the tasks in flight when the handle was dropped, not yet answered
    answered,   \* log: TRUE once a request in flight at the drop has been answered
    metric,     \* the API metric being serialised
    json,       \* the serialiser's output, <<>> before it ran
    held,       \* log: what the task holding the Router mutex found when it loaded
    prior,      \* log: per listing, the listings made since what it lists last
                \* changed, and whether they are kept
    resp,       \* log: the last response of a read handler, and whether they are kept
    wrote,      \* log: the status and the PeerManager calls of the last peer
                \* write, and whether they are kept
    batch       \* log: the peer writes that came in together, the peer set they
                \* found and how each ended, and whether they are kept

lifecycle == <<owner, handle, cancel, shutdown, server, logged>>
shared == <<peers, router>>
log == <<audit, last, mark>>
ser == <<metric, json>>
drain == <<at_drop, answered>>
reads == <<held, prior, resp, wrote, batch>>
vars == <<owner, handle, cancel, shutdown, server, logged, pc, local, lock,
          peers, router, audit, last, mark, at_drop, answered, metric, json,
          held, prior, resp, wrote, batch>>

\* The text of a request that carries none.
NoText == [form |-> "none", id |-> 0, why |-> ""]

\* What a log entry keeps of the exchange before it, when that was an add_peer
\* whose text parsed: its endpoint, its status, the peer set it found.
NoAdd == [endpoint |-> 0, status |-> 0, before |-> {}]

\* No exchange yet.
NoExchange ==
    [op |-> "none", text |-> NoText, endpoint |-> 0, status |-> 0,
     body |-> NoBody, calls |-> <<>>, before |-> {}, after |-> {},
     mark_before |-> "none", after_add |-> NoAdd]

NoMetric == [tag |-> "None", v |-> 0]

\* The handlers that answer with a listing.
ListingHandlers == {"get_peers", "get_selected_routes", "get_fallback_routes"}

\* No router: the place of one in a log entry that has none.
NoRouter == [node_tun_subnet |-> 0, selected |-> <<>>, fallback |-> <<>>]

\* No listing made since what it lists last changed.
NoPrior == [n |-> 0, body |-> <<>>]

\* No listing made yet, the listings not kept.
NoListings ==
    [on |-> FALSE, get_peers |-> NoPrior, get_selected_routes |-> NoPrior,
     get_fallback_routes |-> NoPrior]

\* Nothing loaded under the mutex.
NoHeld == [at |-> NoRouter, again |-> FALSE]

\* No peer write answered yet, the writes not kept.
NoWrite == [on |-> FALSE, op |-> "none", status |-> 0, calls |-> <<>>]

\* A peer write not yet answered.
NoEntry == [op |-> "none", endpoint |-> 0, status |-> 0]

\* No peer writes in flight, the batches not kept.
NoBatch ==
    [on |-> FALSE, open |-> FALSE, start |-> {}, done |-> [t \in Tasks |-> NoEntry]]

\* No read answered yet, the responses not kept.
NoResponse ==
    [on |-> FALSE, op |-> "none", status |-> 0, body |-> NoBody,
     router_at |-> NoRouter, peers_at |-> {}, again |-> FALSE]

\* Before Http::spawn: the node has its router and its peer manager.
Init ==
    /\ owner = "running"
    /\ handle = "unspawned"
    /\ cancel = "none"
    /\ shutdown = FALSE
    /\ server = "unspawned"
    /\ logged = FALSE
    /\ pc = [t \in Tasks |-> "idle"]
    /\ local = [t \in Tasks |-> <<>>]
    /\ lock = 0
    /\ peers \in SUBSET Endpoint
    /\ router \in Routers
    /\ audit = FALSE
    /\ last = NoExchange
    /\ mark = [e \in Endpoint |-> "none"]
    /\ at_drop = {}
    /\ answered = FALSE
    /\ metric = NoMetric
    /\ json = <<>>
    /\ held = NoHeld
    /\ prior = NoListings
    /\ resp = NoResponse
    /\ wrote = NoWrite
    /\ batch = NoBatch

\* --------------------------------------------------------------- lifecycle

\* spawn that lets the sender go out of scope instead of moving it into the
\* handle.
spawn_dropping_sender(bind_ok) ==
    /\ owner = "running"
    /\ handle = "unspawned"
    /\ cancel' = "closed"
    /\ IF bind_ok
       THEN /\ server' = "running"
            /\ handle' = "alive"
            /\ owner' = owner
       ELSE /\ server' = server
            /\ handle' = "none"
            /\ owner' = "panicked"
    /\ UNCHANGED <<shutdown, logged, pc, local, lock, shared, log, drain, ser, reads>>

\* Http::spawn. Server::bind panics when the address cannot be bound: the
\* panic unwinds spawn, which drops both ends of the channel and returns no
\* handle. Otherwise the server is spawned on the runtime and the handle,
\* which owns the sender, is returned.
spawn(bind_ok) ==
    /\ owner = "running"
    /\ handle = "unspawned"
    /\ IF bind_ok
       THEN /\ cancel' = "open"
            /\ server' = "running"
            /\ handle' = "alive"
            /\ owner' = owner
       ELSE /\ cancel' = "closed"
            /\ server' = server
            /\ handle' = "none"
            /\ owner' = "panicked"
    /\ UNCHANGED <<shutdown, logged, pc, local, lock, shared, log, drain, ser, reads>>

\* The owner drops the handle: the sender goes with it.
drop_handle ==
    /\ handle = "alive"
    /\ handle' = "dropped"
    /\ cancel' = "closed"
    /\ at_drop' = {t \in Tasks : pc[t] # "idle"}
    /\ answered' = answered
    /\ UNCHANGED <<owner, shutdown, server, logged, pc, local, lock, shared, log, ser, reads>>

\* cancel_rx.await completes once the sender is gone; the server stops
\* accepting and drains.
graceful_shutdown ==
    /\ server = "running"
    /\ cancel = "closed"
    /\ shutdown' = TRUE
    /\ server' = "draining"
    /\ UNCHANGED <<owner, handle, cancel, logged, pc, local, lock, shared, log,
                   drain, ser, reads>>

\* A server that stops as soon as it is told to, whatever is in flight.
server_done_abrupt ==
    /\ server = "draining"
    /\ server' = "stopped"
    /\ UNCHANGED <<owner, handle, cancel, shutdown, logged, pc, local, lock,
                   shared, log, drain, ser, reads>>

\* The drained server's future completes with Ok: nothing is logged.
server_done ==
    /\ server = "draining"
    /\ \A t \in Tasks : pc[t] = "idle"
    /\ server' = "stopped"
    /\ UNCHANGED <<owner, handle, cancel, shutdown, logged, pc, local, lock,
                   shared, log, drain, ser, reads>>

\* server.await returns Err while it accepts: the task logs it and ends.
server_error ==
    /\ server = "running"
    /\ server' = "failed"
    /\ logged' = TRUE
    /\ UNCHANGED <<owner, handle, cancel, shutdown, pc, local, lock, shared, log,
                   drain, ser, reads>>

\* ---------------------------------------------------------------- requests

PeerHandlers == {"get_peers", "add_peer", "delete_peer"}
RouterHandlers == {"get_info", "get_selected_routes", "get_fallback_routes"}

\* What a PeerManager call on endpoint e, answered with status st, leaves
\* established about e: "added" after a successful add with no delete call
\* since, "deleted" after a successful delete with no add call since.
MarkAfter(m, op, e, st) ==
    IF e \notin Endpoint THEN m
    ELSE IF op = "add_peer"
         THEN IF st = NO_CONTENT THEN [m EXCEPT ![e] = "added"]
              ELSE IF m[e] = "deleted" THEN [m EXCEPT ![e] = "none"] ELSE m
    ELSE IF op = "delete_peer"
         THEN IF st = NO_CONTENT THEN [m EXCEPT ![e] = "deleted"]
              ELSE [m EXCEPT ![e] = "none"]
    ELSE m

\* What the log keeps of exchange x for the entry that follows it.
AddOf(x) ==
    IF x.op = "add_peer" /\ x.endpoint \in Endpoint
    THEN [endpoint |-> x.endpoint, status |-> x.status, before |-> x.before]
    ELSE NoAdd

\* The log entry of a completed exchange.
Exchange(op, s, res) ==
    LET e == Endpoint_from_str(s).endpoint IN
    [op |-> op, text |-> s, endpoint |-> e,
     status |-> res.status, body |-> res.body, calls |-> res.calls,
     before |-> peers, after |-> res.peers,
     mark_before |-> IF e \in Endpoint THEN mark[e] ELSE "none",
     after_add |-> AddOf(last)]

\* The batch log after task t was handed a request: a batch starts with the
\* first request handed out while none is in flight, and is followed for as
\* long as every request of it came in before any of them was answered.
Accepted(t) ==
    IF ~batch.on THEN batch
    ELSE IF \A u \in Tasks : pc[u] = "idle"
         THEN [batch EXCEPT !.open = TRUE, !.start = peers,
                            !.done = [u \in Tasks |-> NoEntry]]
    ELSE IF \E u \in Tasks : batch.done[u] # NoEntry
         THEN [batch EXCEPT !.open = FALSE, !.done = [u \in Tasks |-> NoEntry]]
    ELSE batch

\* The batch log after task t's peer write op on text s ended as res.
Ended(t, op, s, res) ==
    IF batch.on /\ batch.open
    THEN [batch EXCEPT !.done[t] =
            [op |-> op, endpoint |-> Endpoint_from_str(s).endpoint,
             status |-> res.status]]
    ELSE batch

\* The server hands a request to a task running handler h.
accept(t, h) ==
    /\ server = "running"
    /\ pc[t] = "idle"
    /\ pc' = [pc EXCEPT ![t] = h]
    /\ batch' = Accepted(t)
    /\ UNCHANGED <<lifecycle, local, lock, shared, log, drain, ser, held, prior,
                   resp, wrote>>

\* Task t sends its response and ends.
Reply(t) ==
    /\ pc' = [pc EXCEPT ![t] = "idle"]
    /\ at_drop' = at_drop \ {t}
    /\ answered' = (answered \/ t \in at_drop)

\* The exchange log after a peer exchange.
Logged(op, s, res) ==
    /\ audit' = audit
    /\ IF audit
       THEN /\ last' = Exchange(op, s, res)
            /\ mark' = MarkAfter(mark, op, Endpoint_from_str(s).endpoint, res.status)
       ELSE UNCHANGED <<last, mark>>

\* Json that answers an empty listing as an error.
Json_not_found_when_empty(v) ==
    IF v = <<>>
    THEN [status |-> NOT_FOUND, body |-> TextBody(<<"nothing to list">>)]
    ELSE [status |-> OK, body |-> JsonBody(v)]

\* axum's Json(v) as a response: status 200 with v as the JSON body.
Json(v) == [status |-> OK, body |-> JsonBody(v)]

\* The table a route listing reads from router r.
Table(op, r) == IF op = "get_selected_routes" THEN r.selected ELSE r.fallback

\* The listings log after listing op answered, or loaded, the listing l.
Listed(op, l) ==
    IF prior.on
    THEN [prior EXCEPT ![op] = [n |-> IF prior[op].n < 2 THEN prior[op].n + 1 ELSE 2,
                                body |-> l]]
    ELSE prior

\* The listings log after the peer set became ps.
PeersBecame(ps) ==
    IF prior.on /\ ps # peers
    THEN [prior EXCEPT !["get_peers"] = NoPrior]
    ELSE prior

\* The listings log after the router became r: a listing whose table
\* changed starts afresh.
RouterBecame(r) ==
    IF prior.on
    THEN [prior EXCEPT
            !["get_selected_routes"] =
                IF r.selected # router.selected THEN NoPrior ELSE @,
            !["get_fallback_routes"] =
                IF r.fallback # router.fallback THEN NoPrior ELSE @]
    ELSE prior

\* The write log after a peer write op that ended as res.
Written(op, res) ==
    IF wrote.on
    THEN [on |-> TRUE, op |-> op, status |-> res.status, calls |-> res.calls]
    ELSE wrote

\* The read log after task t loaded the listing op under the mutex.
Loaded(t, op) ==
    /\ held' = IF resp.on
               THEN [at |-> router, again |-> prior[op].n > 0]
               ELSE held
    /\ prior' = Listed(op, local'[t])
    /\ UNCHANGED <<resp, wrote, batch>>

\* The read log after task t answered op with what it computed under the
\* mutex.
Answered(t, op) ==
    IF resp.on
    THEN /\ resp' = [on |-> TRUE, op |-> op,
                     status |-> Json(local[t]).status, body |-> Json(local[t]).body,
                     router_at |-> held.at, peers_at |-> {}, again |-> held.again]
         /\ held' = NoHeld
         /\ UNCHANGED <<prior, wrote, batch>>
    ELSE UNCHANGED reads

\* add_peer over a peer manager whose membership test and insertion are two
\* steps: while another add is in flight the test is passed whatever the set
\* holds.
add_peer_racing(t, s) ==
    /\ pc[t] = "add_peer"
    /\ LET res == IF \E u \in Tasks \ {t} : pc[u] = "add_peer"
                  THEN add_peer_result_upsert(peers, s)
                  ELSE add_peer_result(peers, s)
       IN
        /\ peers' = res.peers
        /\ Logged("add_peer", s, res)
        /\ prior' = PeersBecame(res.peers)
        /\ wrote' = Written("add_peer", res)
        /\ batch' = Ended(t, "add_peer", s, res)
        /\ UNCHANGED <<held, resp>>
    /\ Reply(t)
    /\ UNCHANGED <<lifecycle, local, lock, router, ser>>

\* POST /admin/peers with body {"endpoint": s}.
add_peer(t, s) ==
    /\ pc[t] = "add_peer"
    /\ LET res == add_peer_result(peers, s) IN
        /\ peers' = res.peers
        /\ Logged("add_peer", s, res)
        /\ prior' = PeersBecame(res.peers)
        /\ wrote' = Written("add_peer", res)
        /\ batch' = Ended(t, "add_peer", s, res)
        /\ UNCHANGED <<held, resp>>
    /\ Reply(t)
    /\ UNCHANGED <<lifecycle, local, lock, router, ser>>

\* DELETE /admin/peers/{s}.
delete_peer(t, s) ==
    /\ pc[t] = "delete_peer"
    /\ LET res == delete_peer_result(peers, s) IN
        /\ peers' = res.peers
        /\ Logged("delete_peer", s, res)
        /\ prior' = PeersBecame(res.peers)
        /\ wrote' = Written("delete_peer", res)
        /\ batch' = Ended(t, "delete_peer", s, res)
        /\ UNCHANGED <<held, resp>>
    /\ Reply(t)
    /\ UNCHANGED <<lifecycle, local, lock, router, ser>>

\* GET /admin/peers.
get_peers(t) ==
    /\ pc[t] = "get_peers"
    /\ \E res \in get_peers_result(peers) :
        /\ peers' = res.peers
        /\ Logged("get_peers", NoText, res)
        /\ resp' = IF resp.on
                   THEN [on |-> TRUE, op |-> "get_peers",
                         status |-> res.status, body |-> res.body,
                         router_at |-> NoRouter, peers_at |-> peers,
                         again |-> prior["get_peers"].n > 0]
                   ELSE resp
        /\ prior' = Listed("get_peers", res.body.json)
        /\ UNCHANGED <<held, wrote, batch>>
    /\ Reply(t)
    /\ UNCHANGED <<lifecycle, local, lock, router, ser>>

\* get_selected_routes whose load takes the routes out of the table.
get_selected_routes_lock_draining(t) ==
    /\ pc[t] = "get_selected_routes"
    /\ lock = 0
    /\ lock' = t
    /\ local' = [local EXCEPT ![t] = MapRoutes(router.selected)]
    /\ pc' = [pc EXCEPT ![t] = "selected_locked"]
    /\ Loaded(t, "get_selected_routes")
    /\ router' = [router EXCEPT !.selected = <<>>]
    /\ UNCHANGED <<lifecycle, peers, log, drain, ser>>

\* GET /admin/routes/selected, up to its lock: router.lock().unwrap(), then
\* load_selected_routes() and the map to Route views, all with the guard
\* alive.
get_selected_routes_lock(t) ==
    /\ pc[t] = "get_selected_routes"
    /\ lock = 0
    /\ lock' = t
    /\ local' = [local EXCEPT ![t] = MapRoutes(router.selected)]
    /\ pc' = [pc EXCEPT ![t] = "selected_locked"]
    /\ Loaded(t, "get_selected_routes")
    /\ UNCHANGED <<lifecycle, shared, log, drain, ser>>

\* The guard is dropped and Json(routes) is the 200 response.
get_selected_routes_reply(t) ==
    /\ pc[t] = "selected_locked"
    /\ lock' = 0
    /\ local' = [local EXCEPT ![t] = <<>>]
    /\ Answered(t, "get_selected_routes")
    /\ Reply(t)
    /\ UNCHANGED <<lifecycle, shared, log, ser>>

\* get_fallback_routes with a closure of its own, which puts the metric
\* where the sequence number goes.
get_fallback_routes_lock_own_closure(t) ==
    /\ pc[t] = "get_fallback_routes"
    /\ lock = 0
    /\ lock' = t
    /\ local' = [local EXCEPT ![t] =
                    [i \in DOMAIN router.fallback |->
                        [Route(router.fallback[i]) EXCEPT !.seqno = router.fallback[i].metric]]]
    /\ pc' = [pc EXCEPT ![t] = "fallback_locked"]
    /\ Loaded(t, "get_fallback_routes")
    /\ UNCHANGED <<lifecycle, shared, log, drain, ser>>

\* GET /admin/routes/fallback, up to its lock.
get_fallback_routes_lock(t) ==
    /\ pc[t] = "get_fallback_routes"
    /\ lock = 0
    /\ lock' = t
    /\ local' = [local EXCEPT ![t] = MapRoutes(router.fallback)]
    /\ pc' = [pc EXCEPT ![t] = "fallback_locked"]
    /\ Loaded(t, "get_fallback_routes")
    /\ UNCHANGED <<lifecycle, shared, log, drain, ser>>

get_fallback_routes_reply(t) ==
    /\ pc[t] = "fallback_locked"
    /\ lock' = 0
    /\ local' = [local EXCEPT ![t] = <<>>]
    /\ Answered(t, "get_fallback_routes")
    /\ Reply(t)
    /\ UNCHANGED <<lifecycle, shared, log, ser>>

\* GET /admin, up to its lock: the node's subnet is read and rendered with
\* the guard alive.
get_info_lock(t) ==
    /\ pc[t] = "get_info"
    /\ lock = 0
    /\ lock' = t
    /\ local' = [local EXCEPT ![t] = <<[nodeSubnet |-> <<"subnet", router.node_tun_subnet>>]>>]
    /\ pc' = [pc EXCEPT ![t] = "info_locked"]
    /\ held' = IF resp.on THEN [at |-> router, again |-> FALSE] ELSE held
    /\ UNCHANGED <<prior, resp, wrote, batch>>
    /\ UNCHANGED <<lifecycle, shared, log, drain, ser>>

\* get_info that answers and keeps the guard.
get_info_reply_keeping_guard(t) ==
    /\ pc[t] = "info_locked"
    /\ lock' = lock
    /\ local' = [local EXCEPT ![t] = <<>>]
    /\ Answered(t, "get_info")
    /\ Reply(t)
    /\ UNCHANGED <<lifecycle, shared, log, ser>>

get_info_reply(t) ==
    /\ pc[t] = "info_locked"
    /\ lock' = 0
    /\ local' = [local EXCEPT ![t] = <<>>]
    /\ Answered(t, "get_info")
    /\ Reply(t)
    /\ UNCHANGED <<lifecycle, shared, log, ser>>

\* The routers the routing engine may leave behind: those the node may start
\* with, and one whose finite metric is the largest there is.
EngineRouters ==
    LET a == CHOOSE r \in RouteRecords : ~is_infinite(r.metric)
        c == [subnet |-> 3, neighbour |-> 2, metric |-> METRIC_INFINITE - 1, seqno |-> U16Max]
    IN Routers \cup {[node_tun_subnet |-> 1, selected |-> <<c, a>>, fallback |-> <<c>>]}

\* The routing engine replaces the route tables. It works on its own handle
\* to the router state: the mutex is made in Http::spawn around the router
\* the API was given, so the engine does not take it.
engine_update(r) ==
    /\ r # router
    /\ router' = r
    /\ prior' = RouterBecame(r)
    /\ UNCHANGED <<held, resp, wrote, batch>>
    /\ UNCHANGED <<lifecycle, pc, local, lock, peers, log, drain, ser>>

\* One step of the handler task t runs.
Handler(t) ==
    \/ \E s \in Text : add_peer(t, s)
    \/ \E s \in Text : delete_peer(t, s)
    \/ get_peers(t)
    \/ get_selected_routes_lock(t)
    \/ get_selected_routes_reply(t)
    \/ get_fallback_routes_lock(t)
    \/ get_fallback_routes_reply(t)
    \/ get_info_lock(t)
    \/ get_info_reply(t)

\* ---------------------------------------------------------- specifications

Next ==
    \/ \E b \in BOOLEAN : spawn(b)
    \/ drop_handle
    \/ graceful_shutdown
    \/ server_done
    \/ server_error
    \/ \E t \in Tasks, h \in PeerHandlers \cup RouterHandlers : accept(t, h)
    \/ \E t \in Tasks : Handler(t)

\* The node from before Http::spawn on.
Spec == Init /\ [][Next]_vars

\* Before Http::spawn, with one router and no peers yet: the lifecycle does
\* not depend on what the tables hold.
LifeInit ==
    /\ owner = "running"
    /\ handle = "unspawned"
    /\ cancel = "none"
    /\ shutdown = FALSE
    /\ server = "unspawned"
    /\ logged = FALSE
    /\ pc = [t \in Tasks |-> "idle"]
    /\ local = [t \in Tasks |-> <<>>]
    /\ lock = 0
    /\ peers = {}
    /\ router = CHOOSE r \in Routers : r.selected # <<>>
    /\ audit = FALSE
    /\ last = NoExchange
    /\ mark = [e \in Endpoint |-> "none"]
    /\ at_drop = {}
    /\ answered = FALSE
    /\ metric = NoMetric
    /\ json = <<>>
    /\ held = NoHeld
    /\ prior = NoListings
    /\ resp = NoResponse
    /\ wrote = NoWrite
    /\ batch = NoBatch

\* The runtime keeps polling its ready tasks: a handler step is taken while
\* some handler can run, and the server's own future takes its steps.
FairSpec ==
    /\ LifeInit
    /\ [][Next]_vars
    /\ WF_vars(\E t \in Tasks : Handler(t))
    /\ WF_vars(graceful_shutdown)
    /\ WF_vars(server_done)

\* A running server with its handle alive, the exchange log kept.
PeerInit ==
    /\ owner = "running"
    /\ handle = "alive"
    /\ cancel = "open"
    /\ shutdown = FALSE
    /\ server = "running"
    /\ logged = FALSE
    /\ pc = [t \in Tasks |-> "idle"]
    /\ local = [t \in Tasks |-> <<>>]
    /\ lock = 0
    /\ peers \in SUBSET Endpoint
    /\ router \in Routers
    /\ audit = TRUE
    /\ last = NoExchange
    /\ mark = [e \in Endpoint |-> "none"]
    /\ at_drop = {}
    /\ answered = FALSE
    /\ metric = NoMetric
    /\ json = <<>>
    /\ held = NoHeld
    /\ prior = NoListings
    /\ resp = NoResponse
    /\ wrote = NoWrite
    /\ batch = NoBatch

PeerNext ==
    \/ \E t \in Tasks, h \in PeerHandlers : accept(t, h)
    \/ \E t \in Tasks, s \in Text : add_peer(t, s)
    \/ \E t \in Tasks, s \in Text : delete_peer(t, s)
    \/ \E t \in Tasks : get_peers(t)

\* Peer administration on a running server.
PeerSpec == PeerInit /\ [][PeerNext]_vars

\* A running server with its handle alive, the responses of the read handlers
\* kept.
ReadInit ==
    /\ owner = "running"
    /\ handle = "alive"
    /\ cancel = "open"
    /\ shutdown = FALSE
    /\ server = "running"
    /\ logged = FALSE
    /\ pc = [t \in Tasks |-> "idle"]
    /\ local = [t \in Tasks |-> <<>>]
    /\ lock = 0
    /\ peers \in SUBSET Endpoint
    /\ router \in Routers
    /\ audit = FALSE
    /\ last = NoExchange
    /\ mark = [e \in Endpoint |-> "none"]
    /\ at_drop = {}
    /\ answered = FALSE
    /\ metric = NoMetric
    /\ json = <<>>
    /\ held = NoHeld
    /\ prior = NoListings
    /\ resp = [NoResponse EXCEPT !.on = TRUE]
    /\ wrote = NoWrite
    /\ batch = NoBatch

ReadNext ==
    \/ \E t \in Tasks, h \in RouterHandlers \cup {"get_peers"} : accept(t, h)
    \/ \E t \in Tasks : get_peers(t)
    \/ \E t \in Tasks : get_selected_routes_lock(t)
    \/ \E t \in Tasks : get_selected_routes_reply(t)
    \/ \E t \in Tasks : get_fallback_routes_lock(t)
    \/ \E t \in Tasks : get_fallback_routes_reply(t)
    \/ \E t \in Tasks : get_info_lock(t)
    \/ \E t \in Tasks : get_info_reply(t)
    \/ \E r \in EngineRouters : engine_update(r)

\* The read handlers on a running server, next to the routing engine.
ReadSpec == ReadInit /\ [][ReadNext]_vars

\* A running server with its handle alive, the listings kept.
ListInit ==
    /\ owner = "running"
    /\ handle = "alive"
    /\ cancel = "open"
    /\ shutdown = FALSE
    /\ server = "running"
    /\ logged = FALSE
    /\ pc = [t \in Tasks |-> "idle"]
    /\ local = [t \in Tasks |-> <<>>]
    /\ lock = 0
    /\ peers \in SUBSET Endpoint
    /\ router \in Routers
    /\ audit = FALSE
    /\ last = NoExchange
    /\ mark = [e \in Endpoint |-> "none"]
    /\ at_drop = {}
    /\ answered = FALSE
    /\ metric = NoMetric
    /\ json = <<>>
    /\ held = NoHeld
    /\ prior = [NoListings EXCEPT !.on = TRUE]
    /\ resp = NoResponse
    /\ wrote = NoWrite
    /\ batch = NoBatch

ListNext ==
    \/ \E t \in Tasks, h \in ListingHandlers \cup {"add_peer", "delete_peer"} : accept(t, h)
    \/ \E t \in Tasks, s \in Text : add_peer(t, s)
    \/ \E t \in Tasks, s \in Text : delete_peer(t, s)
    \/ \E t \in Tasks : get_peers(t)
    \/ \E t \in Tasks : get_selected_routes_lock(t)
    \/ \E t \in Tasks : get_selected_routes_reply(t)
    \/ \E t \in Tasks : get_fallback_routes_lock(t)
    \/ \E t \in Tasks : get_fallback_routes_reply(t)
    \/ \E r \in EngineRouters : engine_update(r)

\* The listings on a running server, next to the peer writes and the routing
\* engine.
ListSpec == ListInit /\ [][ListNext]_vars

\* A running server with its handle alive, the peer writes kept.
FrameInit ==
    /\ owner = "running"
    /\ handle = "alive"
    /\ cancel = "open"
    /\ shutdown = FALSE
    /\ server = "running"
    /\ logged = FALSE
    /\ pc = [t \in Tasks |-> "idle"]
    /\ local = [t \in Tasks |-> <<>>]
    /\ lock = 0
    /\ peers \in SUBSET Endpoint
    /\ router \in Routers
    /\ audit = FALSE
    /\ last = NoExchange
    /\ mark = [e \in Endpoint |-> "none"]
    /\ at_drop = {}
    /\ answered = FALSE
    /\ metric = NoMetric
    /\ json = <<>>
    /\ held = NoHeld
    /\ prior = NoListings
    /\ resp = NoResponse
    /\ wrote = [NoWrite EXCEPT !.on = TRUE]
    /\ batch = NoBatch

FrameNext ==
    \/ \E t \in Tasks, h \in PeerHandlers \cup RouterHandlers : accept(t, h)
    \/ \E t \in Tasks : Handler(t)
    \/ \E r \in EngineRouters : engine_update(r)

\* Every handler on a running server, next to the routing engine.
FrameSpec == FrameInit /\ [][FrameNext]_vars

\* A running server with its handle alive, the batches of peer writes kept.
WriteInit ==
    /\ owner = "running"
    /\ handle = "alive"
    /\ cancel = "open"
    /\ shutdown = FALSE
    /\ server = "running"
    /\ logged = FALSE
    /\ pc = [t \in Tasks |-> "idle"]
    /\ local = [t \in Tasks |-> <<>>]
    /\ lock = 0
    /\ peers \in SUBSET Endpoint
    /\ router \in Routers
    /\ audit = FALSE
    /\ last = NoExchange
    /\ mark = [e \in Endpoint |-> "none"]
    /\ at_drop = {}
    /\ answered = FALSE
    /\ metric = NoMetric
    /\ json = <<>>
    /\ held = NoHeld
    /\ prior = NoListings
    /\ resp = NoResponse
    /\ wrote = NoWrite
    /\ batch = [NoBatch EXCEPT !.on = TRUE]

WriteNext ==
    \/ \E t \in Tasks, h \in {"add_peer", "delete_peer"} : accept(t, h)
    \/ \E t \in Tasks, s \in Text : add_peer(t, s)
    \/ \E t \in Tasks, s \in Text : delete_peer(t, s)

\* The peer writes on a running server.
WriteSpec == WriteInit /\ [][WriteNext]_vars

\* A running server with its handle alive, nothing kept.
LockInit ==
    /\ owner = "running"
    /\ handle = "alive"
    /\ cancel = "open"
    /\ shutdown = FALSE
    /\ server = "running"
    /\ logged = FALSE
    /\ pc = [t \in Tasks |-> "idle"]
    /\ local = [t \in Tasks |-> <<>>]
    /\ lock = 0
    /\ peers \in SUBSET Endpoint
    /\ router \in Routers
    /\ audit = FALSE
    /\ last = NoExchange
    /\ mark = [e \in Endpoint |-> "none"]
    /\ at_drop = {}
    /\ answered = FALSE
    /\ metric = NoMetric
    /\ json = <<>>
    /\ held = NoHeld
    /\ prior = NoListings
    /\ resp = NoResponse
    /\ wrote = NoWrite
    /\ batch = NoBatch

LockNext ==
    \/ \E t \in Tasks, h \in PeerHandlers \cup RouterHandlers : accept(t, h)
    \/ \E t \in Tasks : Handler(t)

\* Every handler on a running server under a fair scheduler: each task that
\* can take a step again and again takes one, so a thread that waits for the
\* mutex is not passed over for ever.
LockSpec ==
    /\ LockInit
    /\ [][LockNext]_vars
    /\ \A t \in Tasks : SF_vars(Handler(t))

\* The API metrics.
Metrics == {Infinite} \cup {Value(v) : v \in 0..U16Max}

MetricInit ==
    /\ owner = "running"
    /\ handle = "unspawned"
    /\ cancel = "none"
    /\ shutdown = FALSE
    /\ server = "unspawned"
    /\ logged = FALSE
    /\ pc = [t \in Tasks |-> "idle"]
    /\ local = [t \in Tasks |-> <<>>]
    /\ lock = 0
    /\ peers = {}
    /\ router = CHOOSE r \in Routers : r.selected = <<>>
    /\ audit = FALSE
    /\ last = NoExchange
    /\ mark = [e \in Endpoint |-> "none"]
    /\ at_drop = {}
    /\ answered = FALSE
    /\ metric \in Metrics
    /\ json = <<>>
    /\ held = NoHeld
    /\ prior = NoListings
    /\ resp = NoResponse
    /\ wrote = NoWrite
    /\ batch = NoBatch

\* serde_json::to_string(&metric).
to_string_metric ==
    /\ json = <<>>
    /\ json' = Serialize(metric)
    /\ UNCHANGED <<lifecycle, pc, local, lock, shared, log, drain, metric, reads>>

MetricNext == to_string_metric

\* Serialisation of every API metric.
MetricSpec == MetricInit /\ [][MetricNext]_vars

\* ------------------------------------------------------------------ claims

\* The last exchange is an add or delete whose text parsed to endpoint e.
OnEndpoint(op, e) == last.op = op /\ last.endpoint = e

\* The entries of a peer listing that are for endpoint e.
EntriesFor(listing, e) == {i \in DOMAIN listing : listing[i].endpoint = e}

\* C1, as stated: for every valid endpoint E and every reachable peer set, a
\* POST /admin/peers for E immediately followed by DELETE /admin/peers/E
\* leaves the peer set equal to what it was before the add.
C1_AddThenDeleteRestores ==
    \A e \in Endpoint :
        (OnEndpoint("delete_peer", e) /\ last.after_add.endpoint = e)
            => peers = last.after_add.before

\* C1, amended: when E is absent before the add (the POST answers 204), a
\* POST for E immediately followed by a DELETE of E leaves the peer set equal
\* to what it was before the add.
C1_AddAbsentThenDeleteRestores ==
    \A e \in Endpoint :
        (/\ OnEndpoint("delete_peer", e)
         /\ last.after_add.endpoint = e
         /\ last.after_add.status = 204)
            => /\ peers = last.after_add.before
               /\ last.status = 204

C1_Witness ==
    \E e \in Endpoint :
        /\ OnEndpoint("delete_peer", e)
        /\ last.after_add.endpoint = e
        /\ last.after_add.status = 204
        /\ last.after_add.before # {}
        /\ last.text.form = "alternate"

\* C2: a DELETE for a parseable endpoint that is not in the peer set answers
\* 404 with the fixed message and leaves the peer set unchanged.
C2_DeleteAbsentIs404 ==
    \A e \in Endpoint :
        (OnEndpoint("delete_peer", e) /\ e \notin last.before)
            => /\ last.status = 404
               /\ last.body.text = <<"A peer identified by that endpoint does not exist">>
               /\ last.body.json = <<>>
               /\ last.after = last.before
               /\ peers = last.before

C2_Witness ==
    \E e \in Endpoint :
        /\ OnEndpoint("delete_peer", e)
        /\ e \notin last.before
        /\ last.before # {}
        /\ last.status = 404

\* C3: adding an absent endpoint answers 204 and adds it; adding it again with
\* no delete of it in between answers 409 with the fixed message and leaves
\* the peer set unchanged; a listing then holds exactly one entry for it.
C3_SecondAddConflicts ==
    /\ \A e \in Endpoint :
        (OnEndpoint("add_peer", e) /\ e \notin last.before)
            => /\ last.status = 204
               /\ last.after = last.before \cup {e}
    /\ \A e \in Endpoint :
        (OnEndpoint("add_peer", e) /\ last.mark_before = "added")
            => /\ last.status = 409
               /\ last.body.text = <<"A peer identified by that endpoint already exists">>
               /\ last.after = last.before
               /\ peers = last.before
    /\ \A e \in Endpoint :
        (last.op = "get_peers" /\ mark[e] = "added")
            => Cardinality(EntriesFor(last.body.json, e)) = 1

C3_Witness ==
    \E e \in Endpoint :
        /\ OnEndpoint("add_peer", e)
        /\ last.mark_before = "added"
        /\ last.status = 409
        /\ last.after_add.endpoint # e

\* C4: a text the endpoint parser rejects is answered 400 with the parser's
\* diagnostic as the body, by add_peer and by delete_peer alike: in every
\* state the two handlers answer such a text with the same status and body.
C4_SameRejection ==
    /\ (last.op \in {"add_peer", "delete_peer"} /\ ~Endpoint_from_str(last.text).ok)
            => /\ last.status = 400
               /\ last.body = TextBody(to_string(Endpoint_from_str(last.text).err))
    /\ \A s \in Text :
        ~Endpoint_from_str(s).ok
            => /\ add_peer_result(peers, s).status = 400
               /\ delete_peer_result(peers, s).status = 400
               /\ add_peer_result(peers, s).body = delete_peer_result(peers, s).body

C4_Witness ==
    /\ last.op = "delete_peer"
    /\ ~Endpoint_from_str(last.text).ok
    /\ last.status = 400
    /\ peers # {}

\* A task running add_peer or delete_peer answers in this step.
PeerWriteAnswers ==
    \E t \in Tasks : pc[t] \in {"add_peer", "delete_peer"} /\ pc'[t] = "idle"

\* C5: an add or delete whose text fails to parse answers 400 without calling
\* PeerManager::add_peer or delete_peer, and leaves the peer set and the
\* router as they were.
C5_RejectionHasNoEffect ==
    [][(PeerWriteAnswers /\ ~Endpoint_from_str(last'.text).ok)
            => /\ last'.status = 400
               /\ last'.calls = <<>>
               /\ peers' = peers
               /\ router' = router]_vars

C5_Witness ==
    /\ last.op = "add_peer"
    /\ ~Endpoint_from_str(last.text).ok
    /\ last.calls = <<>>
    /\ last.after = last.before
    /\ last.before # {}

\* C6: a listing made after an add of E answered 204, with no delete of E
\* since, has an entry for E; a listing made after a delete of E answered
\* 204, with no add of E since, has none; and a delete of E then answers 404.
C6_ListingFollowsWrites ==
    /\ \A e \in Endpoint :
        last.op = "get_peers"
            => /\ mark[e] = "added" => EntriesFor(last.body.json, e) # {}
               /\ mark[e] = "deleted" => EntriesFor(last.body.json, e) = {}
    /\ \A e \in Endpoint :
        (OnEndpoint("delete_peer", e) /\ last.mark_before = "deleted")
            => last.status = 404

C6_Witness ==
    /\ last.op = "get_peers"
    /\ \E e1, e2 \in Endpoint : mark[e1] = "added" /\ mark[e2] = "deleted"

\* The JSON text of the string "infinite".
InfiniteJson == <<"\"", "i", "n", "f", "i", "n", "i", "t", "e", "\"">>

IsDigit(c) == \E d \in 0..9 : DigitChars[d + 1] = c
DigitValue(c) == CHOOSE d \in 0..9 : DigitChars[d + 1] = c

\* A JSON number without sign, fraction or exponent.
IsJsonNumber(chars) ==
    /\ Len(chars) >= 1
    /\ \A i \in DOMAIN chars : IsDigit(chars[i])
    /\ Len(chars) > 1 => chars[1] # "0"

\* The number a run of decimal digits reads as.
RECURSIVE NumberOf(_)
NumberOf(chars) ==
    IF chars = <<>>
    THEN 0
    ELSE 10 * NumberOf(SubSeq(chars, 1, Len(chars) - 1)) + DigitValue(chars[Len(chars)])

\* C7: Value(v) serialises to the bare JSON number v, which reads back as v;
\* Infinite serialises to the JSON string "infinite"; no finite value
\* serialises to what Infinite serialises to.
C7_MetricSerialization ==
    json # <<>>
        => /\ metric.tag = "Value"
                => /\ IsJsonNumber(json)
                   /\ NumberOf(json) = metric.v
                   /\ json # InfiniteJson
           /\ metric.tag = "Infinite" => json = InfiniteJson

C7_Witness ==
    /\ metric = Value(U16Max)
    /\ json = <<"6", "5", "5", "3", "5">>

\* C8: once the handle is dropped the server ends; it stops only after it has
\* seen the shutdown signal and every request is answered, and every request
\* in flight when the handle was dropped is answered.
C8_GracefulShutdown ==
    /\ [](server = "stopped"
            => /\ shutdown
               /\ at_drop = {}
               /\ \A t \in Tasks : pc[t] = "idle")
    /\ (handle = "dropped") ~> (server \in {"stopped", "failed"} /\ at_drop = {})

C8_Witness ==
    /\ handle = "dropped"
    /\ server = "stopped"
    /\ answered

\* C9: while the handle is alive the channel is open and the shutdown future
\* has not completed; the future completes at most once, and only after the
\* handle was dropped; no step but the drop of the handle closes the channel
\* of a live handle.
C9_ShutdownOnlyByDrop ==
    /\ [](handle = "alive" => (~shutdown /\ cancel = "open"))
    /\ [][shutdown' # shutdown => (~shutdown /\ handle = "dropped")]_vars
    /\ [][(handle = "alive" /\ cancel' # cancel) => handle' = "dropped"]_vars

C9_Witness ==
    /\ handle = "dropped"
    /\ shutdown
    /\ server = "draining"
    /\ at_drop # {}

\* C10: a server failure, at bind or while serving, is logged and ends only
\* the server task: spawn returns a handle and the owner keeps running.
C10_FailureIsOnlyLogged ==
    /\ owner = "running"
    /\ handle # "none"
    /\ server = "failed" => logged

\* The read handlers.
ReadHandlers == RouterHandlers \cup {"get_peers"}

\* C11: GET /admin, GET /admin/peers, GET /admin/routes/selected and GET
\* /admin/routes/fallback answer 200 with a JSON body whatever the other
\* handlers and the routing engine do meanwhile: one entry per peer or route
\* found, so the empty sequence for an empty peer set or table, and the
\* node's subnet for GET /admin.
C11_ReadsAnswer200 ==
    resp.op # "none"
        => /\ resp.op \in ReadHandlers
           /\ resp.status = 200
           /\ resp.body.text = <<>>
           /\ resp.op = "get_peers"
                => /\ Len(resp.body.json) = Cardinality(resp.peers_at)
                   /\ resp.peers_at = {} => resp.body.json = <<>>
           /\ resp.op \in {"get_selected_routes", "get_fallback_routes"}
                => /\ Len(resp.body.json) = Len(Table(resp.op, resp.router_at))
                   /\ Table(resp.op, resp.router_at) = <<>> => resp.body.json = <<>>
           /\ resp.op = "get_info"
                => resp.body.json =
                    <<[nodeSubnet |-> <<"subnet", resp.router_at.node_tun_subnet>>]>>

C11_Witness ==
    /\ resp.op = "get_selected_routes"
    /\ resp.status = 200
    /\ resp.body.json = <<>>
    /\ router.selected # <<>>
    /\ \E t \in Tasks : pc[t] = "get_peers"

\* The route listings.
RouteListings == {"get_selected_routes", "get_fallback_routes"}

\* The listing a route handler holds or has answered is the whole table of
\* its category, as one update of the engine left it, and as it stood when
\* the handler loaded it.
WholeTable(op, views, r) ==
    /\ r \in EngineRouters
    /\ Len(views) = Len(Table(op, r))
    /\ \A i \in DOMAIN views : views[i] = Route(Table(op, r)[i])

\* Every route listing, answered or in hand, is a whole table.
SnapshotAtLoad ==
    /\ resp.op \in RouteListings
        => WholeTable(resp.op, resp.body.json, resp.router_at)
    /\ \A t \in Tasks :
        /\ pc[t] = "selected_locked"
            => lock = t /\ WholeTable("get_selected_routes", local[t], held.at)
        /\ pc[t] = "fallback_locked"
            => lock = t /\ WholeTable("get_fallback_routes", local[t], held.at)

IsRouteView(x) == "nextHop" \in DOMAIN x

\* C13: a Router-reading handler takes the mutex, copies the snapshot out,
\* releases the mutex and only then maps the records to Route views: no task
\* that holds the mutex has Route views in hand.
C13_MapsAfterRelease ==
    \A t \in Tasks :
        lock = t => \A i \in DOMAIN local[t] : ~IsRouteView(local[t][i])

\* Listing op was made before this step and no change of what it lists has
\* come since, this step included.
StillCurrent(op) == prior[op].n > 0 /\ prior'[op].n > 0

\* The entries of a listing, whatever their order.
Entries(l) == {l[i] : i \in DOMAIN l}

SameViews(recs1, views1, recs2, views2) ==
    \A i \in DOMAIN recs1 \cap DOMAIN views1, j \in DOMAIN recs2 \cap DOMAIN views2 :
        recs1[i] = recs2[j] => views1[i] = views2[j]

MetricReflects(view, rec) ==
    /\ view.metric.tag \in {"Infinite", "Value"}
    /\ view.metric.tag = "Infinite" <=> rec.metric = METRIC_INFINITE
    /\ view.metric.tag = "Value" => view.metric = Value(rec.metric)
    /\ view.metric.tag = "Infinite" => view.metric = Infinite
    /\ Serialize(view.metric) = InfiniteJson <=> rec.metric = METRIC_INFINITE
    /\ IsJsonNumber(Serialize(view.metric)) <=> rec.metric # METRIC_INFINITE

\* C16: in every route listing each view's metric is Infinite exactly when
\* the record's metric is infinite and Value(m), m the record's metric,
\* otherwise: an unreachable route is never written as a number and a finite
\* metric never as "infinite".
C16_MetricVariant ==
    resp.op \in RouteListings
        => /\ Len(resp.body.json) = Len(Table(resp.op, resp.router_at))
           /\ \A i \in DOMAIN resp.body.json :
                MetricReflects(resp.body.json[i], Table(resp.op, resp.router_at)[i])

C16_Witness ==
    /\ resp.op = "get_fallback_routes"
    /\ \E i, j \in DOMAIN resp.body.json :
        /\ resp.body.json[i].metric = Infinite
        /\ resp.body.json[j].metric = Value(10)
    /\ \E t \in Tasks :
        /\ pc[t] = "selected_locked"
        /\ \E i \in DOMAIN local[t] : local[t][i].metric = Value(METRIC_INFINITE - 1)

\* Where a task is while it runs a read handler.
ReadPcs == ReadHandlers \cup {"selected_locked", "fallback_locked", "info_locked"}

\* Task t takes a step of its handler.
Moves(t) == pc[t] # "idle" /\ pc'[t] # pc[t]

\* C17: a step of a read handler leaves the peer set and the router as they
\* were; a step of add_peer or delete_peer leaves the router as it was and
\* changes the peer set only when it answers 204, after exactly one
\* PeerManager call, its own; no other step of the API changes either.
C17_OnlyWritesChangeState ==
    [][/\ \A t \in Tasks :
            (Moves(t) /\ pc[t] \in ReadPcs) => (peers' = peers /\ router' = router)
       /\ \A t \in Tasks :
            (Moves(t) /\ pc[t] \in {"add_peer", "delete_peer"})
                => /\ router' = router
                   /\ wrote'.op = pc[t]
                   /\ wrote'.calls \in {<<>>, <<pc[t]>>}
                   /\ peers' # peers
                        => (wrote'.status = 204 /\ wrote'.calls = <<pc[t]>>)
                   /\ wrote'.status = 204 => peers' # peers
       /\ (\E t \in Tasks : pc[t] = "idle" /\ pc'[t] # "idle")
            => (peers' = peers /\ router' = router)]_vars

C17_Witness ==
    /\ wrote.op = "delete_peer"
    /\ wrote.status = 204
    /\ peers # {}
    /\ lock # 0
    /\ pc[lock] = "fallback_locked"
    /\ local[lock] = MapRoutes(router.fallback)
    /\ router.fallback # <<>>

\* One request at a time: what a peer write op on endpoint e (0 when the text
\* does not parse) answers on peer set ps, and the peer set it leaves.
Sequential(ps, op, e) ==
    IF e \notin Endpoint THEN [status |-> 400, peers |-> ps]
    ELSE IF op = "add_peer"
         THEN IF e \in ps
              THEN [status |-> 409, peers |-> ps]
              ELSE [status |-> 204, peers |-> ps \cup {e}]
    ELSE IF e \in ps
         THEN [status |-> 204, peers |-> ps \ {e}]
         ELSE [status |-> 404, peers |-> ps]

\* The tasks of the batch that have answered.
Done == {t \in Tasks : batch.done[t] # NoEntry}

\* Run one after the other in the order q, from its i-th on and from peer
\* set ps, the answered requests of the batch end with the statuses they
\* returned and leave the peer set as it is.
RECURSIVE Explains(_, _, _)
Explains(ps, q, i) ==
    IF i > Len(q)
    THEN ps = peers
    ELSE LET x == batch.done[q[i]]
             r == Sequential(ps, x.op, x.endpoint)
         IN r.status = x.status /\ Explains(r.peers, q, i + 1)

\* The statuses of the answered requests of the batch that are op on e.
StatusesOf(op, e) ==
    {batch.done[t].status :
        t \in {u \in Done : batch.done[u].op = op /\ batch.done[u].endpoint = e}}

\* Exactly two requests of the batch are on endpoint e, both answered and
\* both op.
TwoOf(op, e) ==
    /\ Cardinality({t \in Done : batch.done[t].endpoint = e}) = 2
    /\ \A t \in Done : batch.done[t].endpoint = e => batch.done[t].op = op

\* C18: the statuses that add and delete requests running at the same time
\* return, and the peer set they leave, are those of the same requests run
\* one after the other in some order; two such adds of one absent endpoint
\* return one 204 and one 409, two such deletes of one present endpoint one
\* 204 and one 404.
C18_Linearizable ==
    batch.open
        => /\ \E q \in Listings(Done) : Explains(batch.start, q, 1)
           /\ \A e \in Endpoint :
                /\ (TwoOf("add_peer", e) /\ e \notin batch.start)
                    => StatusesOf("add_peer", e) = {204, 409}
                /\ (TwoOf("delete_peer", e) /\ e \in batch.start)
                    => StatusesOf("delete_peer", e) = {204, 404}

C18_Witness ==
    /\ batch.open
    /\ \E e \in Endpoint :
        /\ TwoOf("add_peer", e)
        /\ e \notin batch.start
        /\ batch.start # {}
        /\ StatusesOf("add_peer", e) = {204, 409}

\* Where a task is while it holds the Router mutex.
LockedPcs == {"selected_locked", "fallback_locked", "info_locked"}

====
